---- MODULE Spec2Model ----
(***************************************************************************)
(* MicroLearningServer: upload -> background processing -> status polling. *)
(* The model follows main.py, database.py, gemini_service.py and          *)
(* text_extractor.py.  Text is a sequence of one-character strings, the    *)
(* reply of the AI service and the stored script_json column are sequences *)
(* of JSON tokens, and a decoded JSON value is a tagged record.            *)
(***************************************************************************)
EXTENDS Integers, Sequences, FiniteSets, TLC

\* Number of upload requests the clients send.
MaxRequests == 2

(***************************************************************************)
(* Python values produced by json.loads                                    *)
(***************************************************************************)
PyNone == [t |-> "None", s |-> "", keys |-> <<>>, items |-> <<>>]
PyStr(x) == [t |-> "str", s |-> x, keys |-> <<>>, items |-> <<>>]
PyInt(x) == [t |-> "int", s |-> x, keys |-> <<>>, items |-> <<>>]
PyList(xs) == [t |-> "list", s |-> "", keys |-> <<>>, items |-> xs]
\* A dict keeps insertion order: keys[i] maps to items[i].
PyDict(ks, xs) == [t |-> "dict", s |-> "", keys |-> ks, items |-> xs]

\* Python truth value of a decoded value (`if script:`).
Truthy(v) ==
    CASE v.t = "None" -> FALSE
      [] v.t = "str" -> v.s # ""
      [] v.t = "int" -> v.s # "0"
      [] v.t = "list" -> Len(v.items) > 0
      [] v.t = "dict" -> Len(v.keys) > 0

HasKey(d, k) == \E i \in 1..Len(d.keys) : d.keys[i] = k
GetItem(d, k) == d.items[CHOOSE i \in 1..Len(d.keys) : d.keys[i] = k]

\* d[k] = v on an insertion-ordered dict: a repeated key keeps its place.
DictSet(ks, xs, k, v) ==
    IF \E i \in 1..Len(ks) : ks[i] = k
    THEN [keys |-> ks,
          items |-> [i \in 1..Len(xs) |-> IF ks[i] = k THEN v ELSE xs[i]]]
    ELSE [keys |-> Append(ks, k), items |-> Append(xs, v)]

(***************************************************************************)
(* JSON text as tokens                                                     *)
(***************************************************************************)
Punct(c) == [k |-> "punct", v |-> c]
Ws == [k |-> "ws", v |-> " "]
StrTok(x) == [k |-> "str", v |-> x]
ReprTok(x) == [k |-> "repr", v |-> x]
Lit(x) == [k |-> "lit", v |-> x]
\* The three-backquote code fence.
Fence == [k |-> "fence", v |-> "fence"]
Word(x) == [k |-> "word", v |-> x]

Digits == {"0", "1", "2"}

\* A string holding a lone surrogate code point (JSON escape \ud800).
LoneSurrogate == "\\ud800"

RECURSIVE SkipWs(_, _)
SkipWs(toks, i) ==
    IF i <= Len(toks) /\ toks[i].k = "ws" THEN SkipWs(toks, i + 1) ELSE i

ParseFail == [ok |-> FALSE, val |-> PyNone, next |-> 0]
ParseOk(v, n) == [ok |-> TRUE, val |-> v, next |-> n]

RECURSIVE ParseValue(_, _), ParseItems(_, _, _), ParseMembers(_, _, _, _)
ParseValue(toks, i) ==
    LET j == SkipWs(toks, i) IN
    IF j > Len(toks) THEN ParseFail
    ELSE CASE toks[j].k = "str" -> ParseOk(PyStr(toks[j].v), j + 1)
           [] toks[j].k = "lit" /\ toks[j].v = "null" -> ParseOk(PyNone, j + 1)
           [] toks[j].k = "lit" /\ toks[j].v \in Digits ->
                  ParseOk(PyInt(toks[j].v), j + 1)
           [] toks[j] = Punct("[") ->
                  LET c == SkipWs(toks, j + 1) IN
                  IF c <= Len(toks) /\ toks[c] = Punct("]")
                  THEN ParseOk(PyList(<<>>), c + 1)
                  ELSE ParseItems(toks, j + 1, <<>>)
           [] toks[j] = Punct("{") ->
                  LET c == SkipWs(toks, j + 1) IN
                  IF c <= Len(toks) /\ toks[c] = Punct("}")
                  THEN ParseOk(PyDict(<<>>, <<>>), c + 1)
                  ELSE ParseMembers(toks, j + 1, <<>>, <<>>)
           [] OTHER -> ParseFail

ParseItems(toks, i, acc) ==
    LET r == ParseValue(toks, i) IN
    IF ~r.ok THEN ParseFail
    ELSE LET j == SkipWs(toks, r.next) IN
         IF j > Len(toks) THEN ParseFail
         ELSE IF toks[j] = Punct(",")
              THEN ParseItems(toks, j + 1, Append(acc, r.val))
              ELSE IF toks[j] = Punct("]")
                   THEN ParseOk(PyList(Append(acc, r.val)), j + 1)
                   ELSE ParseFail

ParseMembers(toks, i, ks, xs) ==
    LET j == SkipWs(toks, i) IN
    IF j > Len(toks) \/ toks[j].k # "str" THEN ParseFail
    ELSE LET c == SkipWs(toks, j + 1) IN
         IF c > Len(toks) \/ toks[c] # Punct(":") THEN ParseFail
         ELSE LET r == ParseValue(toks, c + 1) IN
              IF ~r.ok THEN ParseFail
              ELSE LET d == DictSet(ks, xs, toks[j].v, r.val)
                       e == SkipWs(toks, r.next)
                   IN IF e > Len(toks) THEN ParseFail
                      ELSE IF toks[e] = Punct(",")
                           THEN ParseMembers(toks, e + 1, d.keys, d.items)
                           ELSE IF toks[e] = Punct("}")
                                THEN ParseOk(PyDict(d.keys, d.items), e + 1)
                                ELSE ParseFail

\* json.loads: one value, then only whitespace; anything else is a
\* JSONDecodeError (ok = FALSE).
JsonLoads(toks) ==
    LET r == ParseValue(toks, 1) IN
    IF r.ok /\ SkipWs(toks, r.next) > Len(toks) THEN r ELSE ParseFail

\* json.dumps(v, ensure_ascii=False): separators ", " and ": ", strings
\* written as they are.
RECURSIVE JsonDumps(_), DumpItems(_, _), DumpMembers(_, _, _)
DumpItems(xs, i) ==
    IF i > Len(xs) THEN <<>>
    ELSE (IF i > 1 THEN <<Punct(","), Ws>> ELSE <<>>)
         \o JsonDumps(xs[i]) \o DumpItems(xs, i + 1)

DumpMembers(ks, xs, i) ==
    IF i > Len(ks) THEN <<>>
    ELSE (IF i > 1 THEN <<Punct(","), Ws>> ELSE <<>>)
         \o <<StrTok(ks[i]), Punct(":"), Ws>> \o JsonDumps(xs[i])
         \o DumpMembers(ks, xs, i + 1)

\* str(v) instead of json.dumps(v): Python repr, strings in single quotes.
PyRepr(v) ==
    CASE v.t = "None" -> <<Word("None")>>
      [] v.t = "str" -> <<ReprTok(v.s)>>
      [] v.t = "int" -> <<Lit(v.s)>>
      [] OTHER -> <<Punct("{"), ReprTok("summary"), Punct("}")>>

JsonDumps(v) ==
    CASE v.t = "None" -> <<Lit("null")>>
      [] v.t = "str" -> <<StrTok(v.s)>>
      [] v.t = "int" -> <<Lit(v.s)>>
      [] v.t = "list" -> <<Punct("[")>> \o DumpItems(v.items, 1) \o <<Punct("]")>>
      [] v.t = "dict" ->
             <<Punct("{")>> \o DumpMembers(v.keys, v.items, 1) \o <<Punct("}")>>

(***************************************************************************)
(* gemini_service.py                                                       *)
(***************************************************************************)
RECURSIVE LStrip(_)
LStrip(toks) ==
    IF Len(toks) > 0 /\ Head(toks).k = "ws" THEN LStrip(Tail(toks)) ELSE toks

RECURSIVE RStrip(_)
RStrip(toks) ==
    IF Len(toks) > 0 /\ toks[Len(toks)].k = "ws"
    THEN RStrip(SubSeq(toks, 1, Len(toks) - 1))
    ELSE toks

\* str.strip()
Strip(toks) == RStrip(LStrip(toks))

\* re.sub(r"^```(?:json)?\s*", "", text)
StripOpenFence(toks) ==
    IF Len(toks) > 0 /\ Head(toks) = Fence
    THEN LET rest == Tail(toks) IN
         IF Len(rest) > 0 /\ Head(rest) = Word("json")
         THEN LStrip(Tail(rest))
         ELSE LStrip(rest)
    ELSE toks

\* re.sub(r"\s*```$", "", text)
StripCloseFence(toks) ==
    IF Len(toks) > 0 /\ toks[Len(toks)] = Fence
    THEN RStrip(SubSeq(toks, 1, Len(toks) - 1))
    ELSE toks

\* What model.generate_content(prompt) / response.text gives: a text, or an
\* exception (transport, authentication, quota, blocked reply).
ApiText(toks) == [kind |-> "text", text |-> toks]
ApiError == [kind |-> "error", text |-> <<>>]
\* No call was made (no reply exists).
NoReply == [kind |-> "none", text |-> <<>>]

\* The validation of generate_script without the length test on slides.
ValidateNoLen(script) ==
    IF script.t # "dict" THEN PyNone
    ELSE IF ~HasKey(script, "summary") \/ ~HasKey(script, "slides") THEN PyNone
    ELSE IF GetItem(script, "slides").t # "list" THEN PyNone
    ELSE script

\* Lines 103-113 of generate_script on the decoded value.  On a value that
\* is not a dict: `in` raises TypeError on None and int; on a str it is a
\* substring test and on a list a membership test, and if both pass,
\* script["slides"] raises TypeError.  Every such exception is caught by
\* `except Exception` and gives None.
Validate(script) ==
    IF script.t # "dict" THEN PyNone
    ELSE IF ~HasKey(script, "summary") \/ ~HasKey(script, "slides") THEN PyNone
    ELSE IF GetItem(script, "slides").t # "list"
            \/ Len(GetItem(script, "slides").items) = 0 THEN PyNone
    ELSE script

\* generate_script(text): the value returned (PyNone for None) and whether an
\* exception left the function.  apiKey is GEMINI_API_KEY being set; reply
\* is what the API call gives.
generate_script(apiKey, reply) ==
    IF ~apiKey THEN [raised |-> FALSE, script |-> PyNone]
    ELSE IF reply.kind # "text" THEN [raised |-> FALSE, script |-> PyNone]
    ELSE LET response_text ==
                 Strip(StripCloseFence(StripOpenFence(Strip(reply.text))))
             parsed == JsonLoads(response_text)
         IN IF ~parsed.ok THEN [raised |-> FALSE, script |-> PyNone]
            ELSE [raised |-> FALSE, script |-> Validate(parsed.val)]

(***************************************************************************)
(* text_extractor.py                                                       *)
(***************************************************************************)
Whitespace == {" ", "\n"}

\* Uploaded bytes, by what each reader makes of them: utf8/chars is the
\* result of decoding them as UTF-8, pdf/pages the text of each page when
\* PdfReader can read them.
Bytes(u, cs, p, ps) == [utf8 |-> u, chars |-> cs, pdf |-> p, pages |-> ps]

Raised == [raised |-> TRUE, text |-> <<>>]
Returned(txt) == [raised |-> FALSE, text |-> txt]

extract_text_from_txt(bytes) ==
    IF bytes.utf8 THEN Returned(bytes.chars) ELSE Raised

RECURSIVE JoinPages(_, _)
\* "\n".join(pages_text), pages_text being the pages with non-empty text.
JoinPages(pages, first) ==
    IF Len(pages) = 0 THEN <<>>
    ELSE IF Len(Head(pages)) = 0 THEN JoinPages(Tail(pages), first)
    ELSE (IF first THEN <<>> ELSE <<"\n">>)
         \o Head(pages) \o JoinPages(Tail(pages), FALSE)

extract_text_from_pdf(bytes) ==
    IF bytes.pdf THEN Returned(JoinPages(bytes.pages, TRUE)) ELSE Raised

UpperToLower ==
    [c \in {"T", "X", "P", "D", "F", "E"} |->
        CASE c = "T" -> "t" [] c = "X" -> "x" [] c = "P" -> "p"
          [] c = "D" -> "d" [] c = "F" -> "f" [] c = "E" -> "e"]

\* str.lower()
Lower(cs) ==
    [i \in 1..Len(cs) |->
        IF cs[i] \in DOMAIN UpperToLower THEN UpperToLower[cs[i]] ELSE cs[i]]

\* Path(name).suffix for a name without directory part: from the last dot,
\* unless that dot is the first or the last character.
Suffix(name) ==
    LET dots == {i \in 1..Len(name) : name[i] = "."} IN
    IF dots = {} THEN <<>>
    ELSE LET i == CHOOSE d \in dots : \A e \in dots : e <= d IN
         IF i = 1 \/ i = Len(name) THEN <<>>
         ELSE SubSeq(name, i, Len(name))

ExtTxt == <<".", "t", "x", "t">>
ExtPdf == <<".", "p", "d", "f">>

extract_text(disk, filepath) ==
    LET extension == Lower(Suffix(filepath)) IN
    IF extension = ExtTxt THEN extract_text_from_txt(disk[filepath])
    ELSE IF extension = ExtPdf THEN extract_text_from_pdf(disk[filepath])
    ELSE Raised

\* str.strip() of a text is empty.
StripsToEmpty(text) == \A i \in 1..Len(text) : text[i] \in Whitespace

\* `not text` alone, without the strip() test.
BlankNoStrip(text) == Len(text) = 0

\* `not text or not text.strip()`
Blank(text) == Len(text) = 0 \/ StripsToEmpty(text)

(***************************************************************************)
(* database.py                                                             *)
(***************************************************************************)
Null == [null |-> TRUE, text |-> <<>>]
Text(toks) == [null |-> FALSE, text |-> toks]

\* sqlite3 binds a str parameter as UTF-8; a lone surrogate cannot be
\* encoded and execute() raises UnicodeEncodeError before anything is
\* written.
Utf8Encodable(toks) ==
    \A i \in 1..Len(toks) : ~(toks[i].k = "str" /\ toks[i].v = LoneSurrogate)

\* insert_file with lastrowid taken before the row exists.
InsertFileStaleId(rows, filename, original_filename, created_at) ==
    [files |-> Append(rows, [id |-> Len(rows) + 1,
                             filename |-> filename,
                             original_filename |-> original_filename,
                             status |-> "uploaded",
                             created_at |-> created_at,
                             script_json |-> Null]),
     file_id |-> Len(rows)]

\* insert_file: AUTOINCREMENT id, status 'uploaded', script_json NULL.
insert_file(rows, filename, original_filename, created_at) ==
    [files |-> Append(rows, [id |-> Len(rows) + 1,
                             filename |-> filename,
                             original_filename |-> original_filename,
                             status |-> "uploaded",
                             created_at |-> created_at,
                             script_json |-> Null]),
     file_id |-> Len(rows) + 1]

\* The orders SELECT * FROM files ORDER BY created_at DESC may give: rows
\* with the same created_at come in any order.
get_all_files(rows) ==
    LET n == Len(rows)
        perms == {p \in [1..n -> 1..n] :
                     /\ \A i, j \in 1..n : i # j => p[i] # p[j]
                     /\ \A i, j \in 1..n :
                            i < j => rows[p[i]].created_at >= rows[p[j]].created_at}
    IN {[i \in 1..n |-> rows[p[i]]] : p \in perms}

get_file_by_id(rows, file_id) ==
    IF \E i \in 1..Len(rows) : rows[i].id = file_id
    THEN [found |-> TRUE,
          row |-> rows[CHOOSE i \in 1..Len(rows) : rows[i].id = file_id]]
    ELSE [found |-> FALSE,
          row |-> [id |-> 0, filename |-> <<>>, original_filename |-> <<>>,
                   status |-> "", created_at |-> 0, script_json |-> Null]]

\* Nothing inserts into the videos table.
get_videos_by_file_id(file_id) == <<>>

\* update_file_status that never writes the script_json column.
UpdateStatusOnly(rows, file_id, status, script_json) ==
    [raised |-> FALSE,
     files |-> [i \in 1..Len(rows) |->
                   IF rows[i].id = file_id
                   THEN [rows[i] EXCEPT !.status = status]
                   ELSE rows[i]]]

\* update_file_status: one UPDATE, committed as a whole; with script_json
\* None the script_json column is left as it is.
update_file_status(rows, file_id, status, script_json) ==
    IF ~script_json.null
    THEN IF ~Utf8Encodable(script_json.text)
         THEN [raised |-> TRUE, files |-> rows]
         ELSE [raised |-> FALSE,
               files |-> [i \in 1..Len(rows) |->
                             IF rows[i].id = file_id
                             THEN [rows[i] EXCEPT !.status = status,
                                                  !.script_json = script_json]
                             ELSE rows[i]]]
    ELSE [raised |-> FALSE,
          files |-> [i \in 1..Len(rows) |->
                        IF rows[i].id = file_id
                        THEN [rows[i] EXCEPT !.status = status]
                        ELSE rows[i]]]

(***************************************************************************)
(* Inputs                                                                  *)
(***************************************************************************)
FnTxt == <<"a", ".", "t", "x", "t">>
FnPdfUpper == <<"b", ".", "P", "D", "F">>
FnExe == <<"c", ".", "e", "x", "e">>
\* A part without filename (file.filename is None).
FnNone == <<>>
Unknown == <<"u", "n", "k", "n", "o", "w", "n">>

TxtGood == Bytes(TRUE, <<"h", "i">>, FALSE, <<>>)
TxtBlank == Bytes(TRUE, <<" ", "\n">>, FALSE, <<>>)
\* A PDF of three pages: one without text, two with white space only.
PdfBlank == Bytes(FALSE, <<>>, TRUE, << <<>>, <<" ">>, <<"\n">> >>)

\* The multipart bodies clients send: a filename and the file's bytes.
Uploads ==
    { [filename |-> FnTxt, bytes |-> TxtGood],
      [filename |-> FnTxt, bytes |-> TxtBlank],
      [filename |-> FnTxt, bytes |-> PdfBlank],
      [filename |-> FnPdfUpper, bytes |-> PdfBlank],
      [filename |-> FnExe, bytes |-> TxtGood],
      [filename |-> FnNone, bytes |-> TxtGood] }

Member(k, valueToks) == <<StrTok(k), Punct(":")>> \o valueToks
SlideToks(t, c) ==
    <<Punct("{")>> \o Member("title", <<StrTok(t)>>) \o <<Punct(",")>>
    \o Member("content", <<StrTok(c)>>) \o <<Punct("}")>>
ScriptToks(summaryToks, slidesToks) ==
    <<Punct("{")>> \o Member("summary", summaryToks) \o <<Punct(",")>>
    \o Member("slides", <<Punct("[")>> \o slidesToks \o <<Punct("]")>>)
    \o <<Punct("}")>>

\* A well-shaped script of two slides, wrapped in a json code fence.
ReplyFenced ==
    <<Fence, Word("json"), Ws>>
    \o ScriptToks(<<StrTok("s")>>,
                  SlideToks("t1", "c1") \o <<Punct(","), Ws>> \o SlideToks("t2", "c2"))
    \o <<Ws, Fence>>
\* Truncated JSON.
ReplyMalformed == <<Punct("{"), StrTok("summary"), Punct(":")>>
ReplyNoSlides == <<Punct("{")>> \o Member("summary", <<StrTok("s")>>) \o <<Punct("}")>>
ReplyNoSummary ==
    <<Punct("{")>>
    \o Member("slides", <<Punct("[")>> \o SlideToks("t1", "c1") \o <<Punct("]")>>)
    \o <<Punct("}")>>
ReplyEmptySlides == ScriptToks(<<StrTok("s")>>, <<>>)
\* Both keys and a non-empty list, but summary null and a slide that is a number.
ReplyLoose == ScriptToks(<<Lit("null")>>, <<Lit("1")>>)
\* A well-shaped script whose summary holds a lone surrogate.
ReplySurrogate == ScriptToks(<<StrTok(LoneSurrogate)>>, SlideToks("t1", "c1"))

ApiOutcomes ==
    { ApiText(ReplyFenced), ApiText(ReplyMalformed), ApiText(ReplyNoSlides),
      ApiText(ReplyNoSummary), ApiText(ReplyEmptySlides), ApiText(ReplyLoose),
      ApiText(ReplySurrogate), ApiError }

\* generate_script over the outcomes of this model, evaluated once.
GeneratedScripts ==
    [apiKey \in BOOLEAN, reply \in ApiOutcomes \cup {NoReply} |->
        generate_script(apiKey, reply)]

\* json.dumps over the scripts generate_script can return here, evaluated once.
DumpedScripts ==
    [v \in {GeneratedScripts[x].script : x \in DOMAIN GeneratedScripts} |-> JsonDumps(v)]

(***************************************************************************)
(* main.py: state                                                          *)
(***************************************************************************)
VARIABLES
    GEMINI_API_KEY, \* whether the credential was found at import
    disk,           \* uploads directory: file path -> bytes
    files,          \* rows of the files table, in id order
    now,            \* last reading of the clock
    req,            \* upload requests: position and locals of upload_file
    tasks,          \* scheduled background tasks: position and locals of process_file_sync
    genCalls,       \* file ids for which generate_script has been called
    resp            \* the HTTP response sent by the step just taken

vars == <<GEMINI_API_KEY, disk, files, now, req, tasks, genCalls, resp>>

ALLOWED_EXTENSIONS_Wide == {ExtTxt, ExtPdf, <<".", "e", "x", "e">>}

ALLOWED_EXTENSIONS == {ExtTxt, ExtPdf}

Requests == 1..MaxRequests

NoResponse ==
    [op |-> "none", arg |-> 0, code |-> 0, file_id |-> 0, filename |-> <<>>,
     status |-> "", script |-> PyNone, created_at |-> 0, videos |-> <<>>,
     files |-> <<>>]

IdleRequest ==
    [pc |-> "idle", upload |-> [filename |-> <<>>, bytes |-> Bytes(FALSE, <<>>, FALSE, <<>>)],
     original_filename |-> <<>>, file_extension |-> <<>>, file_path |-> <<>>,
     file_id |-> 0]

Init ==
    /\ GEMINI_API_KEY \in BOOLEAN
    /\ disk = <<>>
    /\ files = <<>>
    /\ now = 0
    /\ req = [r \in Requests |-> IdleRequest]
    /\ tasks = <<>>
    /\ genCalls = {}
    /\ resp = NoResponse

\* upload_file runs on the event loop and yields it only at
\* `await file.read()`: from there to its return no other upload_file runs.
LoopBusy == \E r \in Requests : req[r].pc \in {"saved", "inserted", "processing"}

\* uuid.uuid4().hex: a name no stored file has.
Uuid4Hex == ToString(Cardinality(DOMAIN disk) + 1)

(***************************************************************************)
(* POST /upload                                                            *)
(***************************************************************************)
\* Lines 123-134, up to `await file.read()`.
UploadValidate(r) ==
    /\ req[r].pc = "idle"
    /\ (IF r = 1 THEN TRUE ELSE req[r - 1].pc # "idle")
    /\ ~LoopBusy
    /\ \E u \in Uploads :
         LET original_filename == IF Len(u.filename) > 0 THEN u.filename ELSE Unknown
             file_extension == Lower(Suffix(original_filename))
         IN IF file_extension \notin ALLOWED_EXTENSIONS
            THEN /\ req' = [req EXCEPT ![r] =
                              [IdleRequest EXCEPT !.pc = "rejected",
                                                  !.original_filename = original_filename,
                                                  !.file_extension = file_extension]]
                 /\ resp' = [NoResponse EXCEPT !.op = "upload", !.arg = r, !.code = 400]
            ELSE /\ req' = [req EXCEPT ![r] =
                              [IdleRequest EXCEPT !.pc = "reading",
                                                  !.upload = u,
                                                  !.original_filename = original_filename,
                                                  !.file_extension = file_extension]]
                 /\ resp' = NoResponse
    /\ UNCHANGED <<GEMINI_API_KEY, disk, files, now, tasks, genCalls>>

\* Lines 136-145: the read completes, the bytes are written under a new name.
UploadSave(r) ==
    /\ req[r].pc = "reading"
    /\ ~LoopBusy
    /\ LET file_path == <<Uuid4Hex>> \o req[r].file_extension IN
         /\ disk' = [p \in DOMAIN disk \cup {file_path} |->
                        IF p = file_path THEN req[r].upload.bytes ELSE disk[p]]
         /\ req' = [req EXCEPT ![r].pc = "saved", ![r].file_path = file_path]
    /\ resp' = NoResponse
    /\ UNCHANGED <<GEMINI_API_KEY, files, now, tasks, genCalls>>

\* Lines 147-152: insert_file, created_at = datetime.utcnow(); the readings
\* of the clock are taken to be distinct and increasing.
UploadInsert(r) ==
    /\ req[r].pc = "saved"
    /\ LET ins == insert_file(files, req[r].file_path, req[r].original_filename, now + 1) IN
         /\ files' = ins.files
         /\ now' = now + 1
         /\ req' = [req EXCEPT ![r].pc = "inserted", ![r].file_id = ins.file_id]
    /\ resp' = NoResponse
    /\ UNCHANGED <<GEMINI_API_KEY, disk, tasks, genCalls>>

\* upload_file that leaves out update_file_status(file_id, "processing").
UploadSetProcessingSkipped(r) ==
    /\ req[r].pc = "inserted"
    /\ req' = [req EXCEPT ![r].pc = "processing"]
    /\ resp' = NoResponse
    /\ UNCHANGED <<GEMINI_API_KEY, disk, files, now, tasks, genCalls>>

\* Lines 154-156: update_file_status(file_id, "processing").
UploadSetProcessing(r) ==
    /\ req[r].pc = "inserted"
    /\ files' = update_file_status(files, req[r].file_id, "processing", Null).files
    /\ req' = [req EXCEPT ![r].pc = "processing"]
    /\ resp' = NoResponse
    /\ UNCHANGED <<GEMINI_API_KEY, disk, now, tasks, genCalls>>

\* add_task called twice for the same upload.
UploadRespondTwice(r) ==
    /\ req[r].pc = "processing"
    /\ LET task == [file_id |-> req[r].file_id,
                    filepath |-> req[r].file_path,
                    pc |-> "queued",
                    text |-> <<>>,
                    reply |-> NoReply,
                    script |-> PyNone,
                    writes |-> 0]
       IN tasks' = Append(Append(tasks, task), task)
    /\ resp' = [NoResponse EXCEPT !.op = "upload", !.arg = r, !.code = 200,
                                  !.file_id = req[r].file_id,
                                  !.filename = req[r].original_filename,
                                  !.status = "processing"]
    /\ req' = [req EXCEPT ![r] = [IdleRequest EXCEPT
                                     !.pc = "done",
                                     !.original_filename = req[r].original_filename,
                                     !.file_extension = req[r].file_extension,
                                     !.file_id = req[r].file_id]]
    /\ UNCHANGED <<GEMINI_API_KEY, disk, files, now, genCalls>>

\* Lines 158-167: add_task and the 200 response; the task may run once the
\* response is sent.
UploadRespond(r) ==
    /\ req[r].pc = "processing"
    /\ tasks' = Append(tasks, [file_id |-> req[r].file_id,
                               filepath |-> req[r].file_path,
                               pc |-> "queued",
                               text |-> <<>>,
                               reply |-> NoReply,
                               script |-> PyNone,
                               writes |-> 0])
    /\ resp' = [NoResponse EXCEPT !.op = "upload", !.arg = r, !.code = 200,
                                  !.file_id = req[r].file_id,
                                  !.filename = req[r].original_filename,
                                  !.status = "processing"]
    /\ req' = [req EXCEPT ![r] = [IdleRequest EXCEPT
                                     !.pc = "done",
                                     !.original_filename = req[r].original_filename,
                                     !.file_extension = req[r].file_extension,
                                     !.file_id = req[r].file_id]]
    /\ UNCHANGED <<GEMINI_API_KEY, disk, files, now, genCalls>>

(***************************************************************************)
(* process_file_sync                                                       *)
(***************************************************************************)
TaskIds == 1..Len(tasks)

\* Line 85: extract_text(filepath); an exception goes to the except clause.
TaskExtract(t) ==
    /\ tasks[t].pc = "queued"
    /\ LET r == extract_text(disk, tasks[t].filepath) IN
         tasks' = [tasks EXCEPT ![t].pc = IF r.raised THEN "except" ELSE "extracted",
                                ![t].text = r.text]
    /\ resp' = NoResponse
    /\ UNCHANGED <<GEMINI_API_KEY, disk, files, now, req, genCalls>>

\* The blank-text branch without its return: after the script_failed write
\* the run goes on to the generator, which refuses blank text, and then to
\* the else branch of the store.
TaskBlankNoReturn(t) ==
    /\ tasks[t].pc = "extracted"
    /\ Blank(tasks[t].text)
    /\ files' = update_file_status(files, tasks[t].file_id, "script_failed", Null).files
    /\ tasks' = [tasks EXCEPT ![t].pc = "generated",
                              ![t].script = PyNone,
                              ![t].writes = @ + 1]
    /\ resp' = NoResponse
    /\ UNCHANGED <<GEMINI_API_KEY, disk, now, req, genCalls>>

\* Lines 86-89: blank text, script_failed, return.  writes counts the
\* UPDATE statements the run has committed.
TaskBlank(t) ==
    /\ tasks[t].pc = "extracted"
    /\ Blank(tasks[t].text)
    /\ files' = update_file_status(files, tasks[t].file_id, "script_failed", Null).files
    /\ tasks' = [tasks EXCEPT ![t].pc = "finished", ![t].text = <<>>,
                              ![t].writes = @ + 1]
    /\ resp' = NoResponse
    /\ UNCHANGED <<GEMINI_API_KEY, disk, now, req, genCalls>>

\* Line 94: script = generate_script(text).  The API is called only when the
\* credential is set.
TaskGenerate(t) ==
    /\ tasks[t].pc = "extracted"
    /\ ~Blank(tasks[t].text)
    /\ \E reply \in IF GEMINI_API_KEY THEN ApiOutcomes ELSE {NoReply} :
         LET g == GeneratedScripts[GEMINI_API_KEY, reply] IN
         tasks' = [tasks EXCEPT ![t].pc = IF g.raised THEN "except" ELSE "generated",
                                ![t].reply = reply,
                                ![t].script = g.script]
    /\ genCalls' = genCalls \cup {tasks[t].file_id}
    /\ resp' = NoResponse
    /\ UNCHANGED <<GEMINI_API_KEY, disk, files, now, req>>

\* Lines 96-104: store the script with script_ready, or script_failed when
\* there is none.  An exception of the update goes to the except clause.
TaskStore(t) ==
    /\ tasks[t].pc = "generated"
    /\ IF Truthy(tasks[t].script)
       THEN LET script_json_str == DumpedScripts[tasks[t].script]
                u == update_file_status(files, tasks[t].file_id, "script_ready",
                                        Text(script_json_str))
            IN /\ files' = u.files
               /\ tasks' = [tasks EXCEPT ![t].pc = IF u.raised THEN "except" ELSE "finished",
                                         ![t].text = <<>>,
                                         ![t].reply = NoReply,
                                         ![t].writes = IF u.raised THEN @ ELSE @ + 1]
       ELSE /\ files' = update_file_status(files, tasks[t].file_id, "script_failed", Null).files
            /\ tasks' = [tasks EXCEPT ![t].pc = "finished",
                                      ![t].text = <<>>,
                                      ![t].reply = NoReply,
                                      ![t].writes = @ + 1]
    /\ resp' = NoResponse
    /\ UNCHANGED <<GEMINI_API_KEY, disk, now, req, genCalls>>

\* Lines 106-110: the except clause.
TaskExcept(t) ==
    /\ tasks[t].pc = "except"
    /\ files' = update_file_status(files, tasks[t].file_id, "script_failed", Null).files
    /\ tasks' = [tasks EXCEPT ![t].pc = "finished", ![t].text = <<>>,
                              ![t].writes = @ + 1]
    /\ resp' = NoResponse
    /\ UNCHANGED <<GEMINI_API_KEY, disk, now, req, genCalls>>

(***************************************************************************)
(* GET /files and GET /status/{file_id}                                    *)
(***************************************************************************)
\* Ids clients ask for: every id that can exist, and 0, which never does.
PollIds == 0..MaxRequests

ListFiles ==
    /\ \E rows \in get_all_files(files) :
         resp' = [NoResponse EXCEPT !.op = "files", !.code = 200, !.files = rows]
    /\ UNCHANGED <<GEMINI_API_KEY, disk, files, now, req, tasks, genCalls>>

\* file_status answering an unknown id with an empty record.
FileStatusNullRecord(rows, file_id) ==
    LET file_record == get_file_by_id(rows, file_id) IN
    [NoResponse EXCEPT !.op = "status", !.arg = file_id, !.code = 200,
                       !.file_id = file_record.row.id,
                       !.filename = file_record.row.original_filename,
                       !.status = file_record.row.status,
                       !.created_at = file_record.row.created_at]

\* file_status(file_id) on the rows of the files table.
file_status(rows, file_id) ==
    LET file_record == get_file_by_id(rows, file_id) IN
    IF ~file_record.found
    THEN [NoResponse EXCEPT !.op = "status", !.arg = file_id, !.code = 404]
    ELSE LET stored == file_record.row.script_json
             parsed == JsonLoads(stored.text)
             script == IF ~stored.null /\ Len(stored.text) > 0 /\ parsed.ok
                       THEN parsed.val
                       ELSE PyNone
         IN [NoResponse EXCEPT !.op = "status", !.arg = file_id, !.code = 200,
                               !.file_id = file_record.row.id,
                               !.filename = file_record.row.original_filename,
                               !.status = file_record.row.status,
                               !.script = script,
                               !.created_at = file_record.row.created_at,
                               !.videos = get_videos_by_file_id(file_id)]

FileStatus(id) ==
    /\ resp' = file_status(files, id)
    /\ UNCHANGED <<GEMINI_API_KEY, disk, files, now, req, tasks, genCalls>>

\* The steps of the server that are not answers to polls.
ServerNext ==
    \/ \E r \in Requests : UploadValidate(r)
    \/ \E r \in Requests : UploadSave(r)
    \/ \E r \in Requests : UploadInsert(r)
    \/ \E r \in Requests : UploadSetProcessing(r)
    \/ \E r \in Requests : UploadRespond(r)
    \/ \E t \in TaskIds : TaskExtract(t)
    \/ \E t \in TaskIds : TaskBlank(t)
    \/ \E t \in TaskIds : TaskGenerate(t)
    \/ \E t \in TaskIds : TaskStore(t)
    \/ \E t \in TaskIds : TaskExcept(t)

Next ==
    \/ ServerNext
    \/ ListFiles
    \/ \E id \in PollIds : FileStatus(id)

Spec == Init /\ [][Next]_vars

\* A step of an upload past its read, or of a scheduled task.
Progress ==
    \/ \E r \in Requests :
         UploadSave(r) \/ UploadInsert(r) \/ UploadSetProcessing(r) \/ UploadRespond(r)
    \/ \E t \in TaskIds :
         TaskExtract(t) \/ TaskBlank(t) \/ TaskGenerate(t) \/ TaskStore(t) \/ TaskExcept(t)

\* The event loop and the thread pool do not stop while an upload_file past
\* its read or a scheduled task has a step to take.  Polls are left out: a
\* poll changes resp only, which nothing checked under this specification
\* reads, so every run of Spec is a run of FairSpec with polls put between
\* its steps.
FairSpec == Init /\ [][ServerNext]_vars /\ WF_vars(Progress)

(***************************************************************************)
(* Properties                                                              *)
(***************************************************************************)
Terminal == {"script_ready", "script_failed"}
RowOf(file_id) == get_file_by_id(files, file_id).row

StatusEdges ==
    { <<"uploaded", "processing">>,
      <<"processing", "script_ready">>,
      <<"processing", "script_failed">> }

\* C1: in every step, a new file record starts at uploaded, and the status of
\* an existing record either stays or moves along uploaded -> processing ->
\* script_ready | script_failed; so it never reverts, never goes from
\* uploaded to a terminal status, and never leaves a terminal status.
C1_StatusProgresses ==
    [][ /\ Len(files') >= Len(files)
        /\ \A i \in 1..Len(files') :
             IF i > Len(files)
             THEN files'[i].status = "uploaded"
             ELSE /\ files'[i].id = files[i].id
                  /\ \/ files'[i].status = files[i].status
                     \/ <<files[i].status, files'[i].status>> \in StatusEdges ]_vars

\* One record has reached script_ready and another script_failed.
C1_Witness ==
    /\ \E i \in 1..Len(files) : files[i].status = "script_ready"
    /\ \E i \in 1..Len(files) : files[i].status = "script_failed"

\* C2: a file record has a stored script if and only if its status is
\* script_ready.
C2_ScriptIffReady ==
    \A i \in 1..Len(files) :
        (~files[i].script_json.null) <=> (files[i].status = "script_ready")

C2_Witness ==
    /\ \E i \in 1..Len(files) :
         files[i].status = "script_ready" /\ Len(files[i].script_json.text) > 0
    /\ \E i \in 1..Len(files) :
         files[i].status = "script_failed" /\ files[i].script_json.null

\* A script as the generator's validation accepts it: summary and slides
\* present, slides a non-empty list.
HasSummaryAndSlides(v) ==
    /\ v.t = "dict"
    /\ HasKey(v, "summary")
    /\ HasKey(v, "slides")
    /\ GetItem(v, "slides").t = "list"
    /\ Len(GetItem(v, "slides").items) > 0

\* C3: once the background task of a file with non-blank text has finished
\* and its generate_script call returned a valid script (summary and a
\* non-empty slides list), get_status reports script_ready with a non-null
\* script.
C3_ValidScriptIsReported ==
    \A t \in TaskIds :
        (/\ tasks[t].pc = "finished"
         /\ tasks[t].file_id \in genCalls
         /\ HasSummaryAndSlides(tasks[t].script))
        => LET s == file_status(files, tasks[t].file_id) IN
           /\ s.code = 200
           /\ s.status = "script_ready"
           /\ s.script # PyNone

AllWhitespace(text) == \A i \in 1..Len(text) : text[i] \in {" ", "\n"}

\* The upload of request r was accepted and its stored file yields empty or
\* whitespace-only text.
AcceptedBlank(r) ==
    /\ req[r].pc = "done"
    /\ LET e == extract_text(disk, RowOf(req[r].file_id).filename) IN
       ~e.raised /\ AllWhitespace(e.text)

ReportsFailedNoScript(file_id) ==
    /\ RowOf(file_id).status = "script_failed"
    /\ LET s == file_status(files, file_id) IN
       s.code = 200 /\ s.status = "script_failed" /\ s.script = PyNone

\* The background task scheduled for the file has run to its end.
TaskFinished(file_id) ==
    \E t \in TaskIds : tasks[t].file_id = file_id /\ tasks[t].pc = "finished"

\* C4: for an accepted upload whose extraction yields empty or
\* whitespace-only text, generate_script is never called for the file; the
\* file's background task eventually finishes, and from then on get_status
\* reports script_failed with script null.
C4_BlankTextFails ==
    /\ [](\A r \in Requests :
            AcceptedBlank(r) =>
                /\ req[r].file_id \notin genCalls
                /\ TaskFinished(req[r].file_id) => ReportsFailedNoScript(req[r].file_id))
    /\ \A r \in Requests : (req[r].pc = "done") ~> TaskFinished(req[r].file_id)
    /\ [][\A r \in Requests :
            (req[r].pc = "done" /\ TaskFinished(req[r].file_id))
            => (req'[r] = req[r] /\ TaskFinished(req[r].file_id)')]_vars

\* The task of a whitespace-only upload has finished without a call of
\* generate_script.
C4_Witness ==
    \E r \in Requests :
        /\ AcceptedBlank(r)
        /\ TaskFinished(req[r].file_id)
        /\ ReportsFailedNoScript(req[r].file_id)
        /\ req[r].file_id \notin genCalls
        /\ genCalls # {}

\* Replies from which no script can come: no credential, a failed call,
\* malformed JSON, a missing summary or slides key, an empty slides list.
BadOutcome(reply) ==
    \/ reply.kind \in {"none", "error"}
    \/ /\ reply.kind = "text"
       /\ LET p == JsonLoads(Strip(StripCloseFence(StripOpenFence(Strip(reply.text))))) IN
          \/ ~p.ok
          \/ /\ p.val.t = "dict"
             /\ \/ ~HasKey(p.val, "summary")
                \/ ~HasKey(p.val, "slides")
                \/ GetItem(p.val, "slides") = PyList(<<>>)

\* C5: a generate_script call (made for non-blank text) returns to its
\* caller without raising, and with None when the outcome of the API call is
\* a bad one; the task then finishes with the record at script_failed and no
\* script.
C5_BadReplyFails ==
    [][ \A t \in TaskIds :
          /\ (tasks[t].pc = "extracted" /\ tasks'[t].pc \notin {"extracted", "finished"})
             => /\ tasks'[t].pc = "generated"
                /\ BadOutcome(tasks'[t].reply) => tasks'[t].script = PyNone
          /\ (tasks[t].pc = "generated" /\ BadOutcome(tasks[t].reply)
              /\ tasks'[t].pc # "generated")
             => /\ tasks'[t].pc = "finished"
                /\ get_file_by_id(files', tasks[t].file_id).row.status = "script_failed"
                /\ get_file_by_id(files', tasks[t].file_id).row.script_json.null
                /\ file_status(files', tasks[t].file_id).script = PyNone ]_vars

\* A task finished in script_failed after an empty slides list, another is
\* holding the None of a malformed reply.
C5_Witness ==
    /\ \E t \in TaskIds :
         /\ tasks[t].pc = "generated"
         /\ tasks[t].reply \in {ApiText(ReplyMalformed), ApiText(ReplyEmptySlides),
                                ApiText(ReplyNoSlides), ApiText(ReplyNoSummary), ApiError}
         /\ tasks[t].script = PyNone
    /\ \E t \in TaskIds :
         /\ tasks[t].pc = "finished"
         /\ tasks[t].file_id \in genCalls
         /\ ReportsFailedNoScript(tasks[t].file_id)

\* summary a string, slides a non-empty list of objects with title and content.
WellShaped(v) ==
    /\ v.t = "dict"
    /\ HasKey(v, "summary") /\ GetItem(v, "summary").t = "str"
    /\ HasKey(v, "slides") /\ GetItem(v, "slides").t = "list"
    /\ Len(GetItem(v, "slides").items) > 0
    /\ \A i \in 1..Len(GetItem(v, "slides").items) :
         LET slide == GetItem(v, "slides").items[i] IN
         slide.t = "dict" /\ HasKey(slide, "title") /\ HasKey(slide, "content")

\* C6: whenever get_status reports script_ready, the reported script has a
\* string summary and a non-empty slides list whose elements are objects
\* with title and content.
C6_ReadyScriptWellShaped ==
    \A id \in PollIds :
        LET s == file_status(files, id) IN
        (s.code = 200 /\ s.status = "script_ready") => WellShaped(s.script)

\* C7: the step in which upload_file looks at a filename whose lower-cased
\* extension is neither .txt nor .pdf answers 400 and changes neither the
\* files table (so list_files gives the same records), nor the stored bytes,
\* nor the scheduled tasks; and a rejected request does nothing afterwards.
C7_BadExtensionRejected ==
    [][ \A r \in Requests :
          /\ (/\ req[r].pc = "idle" /\ req'[r].pc # "idle"
              /\ Lower(Suffix(req'[r].original_filename)) \notin {ExtTxt, ExtPdf})
             => /\ resp'.op = "upload" /\ resp'.arg = r /\ resp'.code = 400
                /\ req'[r].pc = "rejected"
                /\ files' = files
                /\ get_all_files(files') = get_all_files(files)
                /\ disk' = disk
                /\ tasks' = tasks
          /\ req[r].pc = "rejected" => req'[r] = req[r] ]_vars

\* A .exe was turned down while a record of an earlier upload exists.
C7_Witness ==
    /\ resp.op = "upload" /\ resp.code = 400
    /\ req[resp.arg].pc = "rejected"
    /\ req[resp.arg].file_extension = <<".", "e", "x", "e">>
    /\ Len(files) > 0

\* C8: once upload_file has returned a file_id, every result of list_files
\* holds a record with that id, and get_status of it answers 200 with that
\* file's record.
C8_AcceptedIsListed ==
    \A r \in Requests :
        req[r].pc = "done" =>
            /\ \A rows \in get_all_files(files) :
                 \E i \in 1..Len(rows) : rows[i].id = req[r].file_id
            /\ LET s == file_status(files, req[r].file_id) IN
               /\ s.code = 200
               /\ s.file_id = req[r].file_id
               /\ s.filename = req[r].original_filename

C8_Witness ==
    /\ resp.op = "files"
    /\ Len(resp.files) = 2
    /\ \A r \in {1, 2} :
         /\ req[r].pc = "done"
         /\ \E i \in 1..Len(resp.files) : resp.files[i].id = req[r].file_id

\* C9: a get_status step for an id without file record answers 404, with no
\* field of a record in the response, and leaves the files table as it was.
C9_UnknownIdNotFound ==
    [][ (resp'.op = "status" /\ ~get_file_by_id(files, resp'.arg).found)
        => /\ resp'.code = 404
           /\ resp' = [NoResponse EXCEPT !.op = "status", !.arg = resp'.arg, !.code = 404]
           /\ files' = files ]_vars

C9_Witness ==
    /\ resp.op = "status" /\ resp.code = 404
    /\ Len(files) > 0
    /\ ~get_file_by_id(files, resp.arg).found

\* C10: when a task has stored the script its generate_script call returned,
\* the script get_status returns for the file equals it: same summary, same
\* slides in the same order.
C10_ScriptRoundTrip ==
    \A t \in TaskIds :
        (tasks[t].pc = "finished" /\ RowOf(tasks[t].file_id).status = "script_ready")
        => file_status(files, tasks[t].file_id).script = tasks[t].script

C10_Witness ==
    \E t \in TaskIds :
        /\ tasks[t].pc = "finished"
        /\ resp.op = "status" /\ resp.arg = tasks[t].file_id
        /\ resp.status = "script_ready"
        /\ resp.script = tasks[t].script
        /\ Len(GetItem(resp.script, "slides").items) = 2
        /\ GetItem(resp.script, "slides").items[1]
             = PyDict(<<"title", "content">>, <<PyStr("t1"), PyStr("c1")>>)

\* The run of process_file_sync numbered t has returned.
RunFinished(t) == tasks[t].pc = "finished"

\* The extraction of run t raised: the exception exit path.
ExtractionRaised(t) == extract_text(disk, tasks[t].filepath).raised

\* C11: a run of process_file_sync that has returned has committed exactly
\* one status write, and a run that has not returned has committed none; the
\* record of a returned run has a terminal status, never processing, on each
\* exit path, and script_failed when the extraction raised or the text was
\* blank or the generator returned no script.
C11_OneTerminalWrite ==
    \A t \in TaskIds :
        /\ tasks[t].writes = (IF RunFinished(t) THEN 1 ELSE 0)
        /\ RunFinished(t) =>
               /\ get_file_by_id(files, tasks[t].file_id).found
               /\ RowOf(tasks[t].file_id).status \in Terminal
               /\ (\/ ExtractionRaised(t)
                   \/ ~Truthy(tasks[t].script))
                  => RowOf(tasks[t].file_id).status = "script_failed"

\* One run has returned through the except clause after the extraction
\* raised, and another after storing the generator's script.
C11_Witness ==
    /\ \E t \in TaskIds :
         /\ RunFinished(t)
         /\ ExtractionRaised(t)
         /\ RowOf(tasks[t].file_id).status = "script_failed"
    /\ \E t \in TaskIds :
         /\ RunFinished(t)
         /\ Truthy(tasks[t].script)
         /\ RowOf(tasks[t].file_id).status = "script_ready"

\* Those with a status write to the record file_id still to make: the
\* upload_file between its insert and its write of processing, and the runs
\* of process_file_sync for that record that have not returned.
Writers(file_id) ==
    {<<"upload_file", r>> : r \in {x \in Requests :
                                     req[x].pc = "inserted" /\ req[x].file_id = file_id}}
    \cup
    {<<"process_file_sync", t>> : t \in {x \in TaskIds :
                                           tasks[x].file_id = file_id /\ ~RunFinished(x)}}

\* C12: no two scheduled runs of process_file_sync have the same file id; a
\* run exists only when the upload_file that scheduled it has completed its
\* write of processing, so its record exists and is past uploaded; at most
\* one writer of a record has a write to make at any time; and a step of a
\* run leaves every record but its own as it was.
C12_OneRunPerFileOwnRecord ==
    /\ [](/\ \A t1, t2 \in TaskIds :
                tasks[t1].file_id = tasks[t2].file_id => t1 = t2
          /\ \A t \in TaskIds :
                /\ \E r \in Requests :
                      req[r].pc = "done" /\ req[r].file_id = tasks[t].file_id
                /\ get_file_by_id(files, tasks[t].file_id).found
                /\ RowOf(tasks[t].file_id).status # "uploaded"
          /\ \A i \in 1..Len(files) : Cardinality(Writers(files[i].id)) <= 1)
    /\ [][\A t \in TaskIds :
            tasks'[t] # tasks[t] =>
                /\ Len(files') = Len(files)
                /\ \A i \in 1..Len(files) :
                      files[i].id # tasks[t].file_id => files'[i] = files[i]]_vars

\* Two runs for two records: one has returned and left its record terminal,
\* the other has not returned and its record is still at processing.
C12_Witness ==
    \E t1, t2 \in TaskIds :
        /\ tasks[t1].file_id # tasks[t2].file_id
        /\ RunFinished(t1)
        /\ RowOf(tasks[t1].file_id).status \in Terminal
        /\ ~RunFinished(t2)
        /\ RowOf(tasks[t2].file_id).status = "processing"

====
